---- MODULE Spec2Model ----
(***************************************************************************)
(* A model of scripts/sync-react-docs.js: the documentation compiler that  *)
(* walks src/content, turns every .md/.mdx file into a section of one      *)
(* text buffer, normalizes the buffer and writes it to one output file.    *)
(*                                                                         *)
(* Text is a sequence of tokens.  A token is a string that stands for the  *)
(* characters it spells; the tokens the regular expressions of the script  *)
(* look for ("\n", " ", "#", "---", a quote, "import ", "<", ...) are      *)
(* tokens of their own, and every other token is a run of ordinary         *)
(* characters.  Regular expressions are translated to scans over tokens.   *)
(***************************************************************************)
EXTENDS Integers, Sequences, FiniteSets, TLC

VARIABLES
  rootExists,  \* fs.existsSync(DOCS_DIR)
  rootOk,      \* whether DOCS_DIR can be listed
  tree,        \* the entries below DOCS_DIR: entry i is [parent, item]
  store,       \* the snippet files: path tokens -> [readable, code]
  pc,          \* position of the top-level script
  stack,       \* the active calls of walk: <<[dir, entries, i], ...>>, innermost last
  output,      \* let output
  fileCount,   \* let fileCount
  disk,        \* content of OUTPUT_FILE
  writes,      \* number of fs.writeFileSync(OUTPUT_FILE, ...) calls
  exit,        \* how the process ended: "running", "success", "failure"
  visited,     \* history: the entries the for loop of walk has handled, in order
  appended,    \* history: the entries whose section was appended, in order
  reads,       \* history: the entries given to readFileSync or readdirSync
  cIn, cOut, cpc,              \* SpecClean: a text, cleanOutput's first step on it
  sBody, sOut, sOut2, spc      \* SpecSnip: a body, loadSnippets on it, and again

vars == <<rootExists, rootOk, tree, store, pc, stack, output, fileCount, disk,
          writes, exit, visited, appended, reads, cIn, cOut, cpc,
          sBody, sOut, sOut2, spc>>
mainVars == <<rootExists, rootOk, tree, store, pc, stack, output, fileCount,
              disk, writes, exit, visited, appended, reads>>
cleanVars == <<cIn, cOut, cpc>>
snipVars == <<sBody, sOut, sOut2, spc>>

----------------------------------------------------------------------------
\* Tokens

NL == "\n"
SP == " "
HASH == "#"
MARK == "---"
SQ == "'"
DQ == "\""
IMPORT == "import "
FROM == " from "
EXPORT_CONST == "export const "
COPEN == "{/*"
CCLOSE == "*/}"
\* the fence-open marker, three backquotes (a character the TLA+ lexer rejects)
FENCE == "[fence]"
LT == "<"
GT == ">"

Whitespace == {NL, SP}
Quotes == {SQ, DQ}
\* tokens that contain the literal text "snippets"
SnippetWords == {"snippets/a", "snippets/b", "snippets/d"}
\* tokens that are a file extension
ExtTokens == {".md", ".mdx", ".txt", ".js", ".jsx", ".ts", ".tsx", ".py"}
SNIPPET_EXTENSIONS == {".js", ".jsx", ".ts", ".tsx"}
FenceLangs == {"jsx", "tsx", "javascript", "typescript"}
KeptTags == {"code", "pre"}

----------------------------------------------------------------------------
\* String helpers

Min(S) == CHOOSE x \in S : \A y \in S : x <= y
Max(S) == CHOOSE x \in S : \A y \in S : x >= y

From(s, i) == SubSeq(s, i, Len(s))
IsPrefix(p, s) == Len(p) <= Len(s) /\ SubSeq(s, 1, Len(p)) = p
MatchAt(s, i, p) == i + Len(p) - 1 <= Len(s) /\ SubSeq(s, i, i + Len(p) - 1) = p

RECURSIVE Flatten(_)
Flatten(ss) == IF ss = <<>> THEN <<>> ELSE Head(ss) \o Flatten(Tail(ss))

\* index of the last token of the line that position i is on ("." stops at "\n")
LineEnd(s, i) ==
  LET nls == {j \in i..Len(s) : s[j] = NL}
  IN IF nls = {} THEN Len(s) ELSE Min(nls) - 1

\* String.prototype.trimEnd, trimStart, trim
RECURSIVE trimEnd(_)
trimEnd(s) ==
  IF s # <<>> /\ s[Len(s)] \in Whitespace THEN trimEnd(SubSeq(s, 1, Len(s) - 1)) ELSE s
RECURSIVE trimStart(_)
trimStart(s) == IF s # <<>> /\ s[1] \in Whitespace THEN trimStart(Tail(s)) ELSE s
trim(s) == trimStart(trimEnd(s))

\* length of the run of token t that starts at position i
RECURSIVE RunLen(_, _, _)
RunLen(s, i, t) == IF i <= Len(s) /\ s[i] = t THEN 1 + RunLen(s, i + 1, t) ELSE 0

----------------------------------------------------------------------------
\* extractFrontmatter (and js-yaml's load on the blocks the documents hold)

\* yaml.load(block).  js-yaml returns undefined or null for a block with no
\* content, a mapping for "title: <words>", the scalar itself for plain words,
\* and throws on an unclosed flow sequence ("[").
\* The result is [kind |-> "nullish" | "map" | "scalar" | "throws", title |-> text];
\* title is <<>> when the value has no title property.
yamlLoad(block) ==
  LET b == trim(block)
  IN IF b = <<>> THEN [kind |-> "nullish", title |-> <<>>]
     ELSE IF \E j \in 1..Len(b) : b[j] = "[" THEN [kind |-> "throws", title |-> <<>>]
     ELSE IF b[1] = "title: " /\ LineEnd(b, 1) = Len(b)
       THEN [kind |-> "map", title |-> trim(Tail(b))]
     ELSE [kind |-> "scalar", title |-> <<>>]

EmptyMapping == [kind |-> "map", title |-> <<>>]

\* content.match(/^---([\s\S]*?)---/): 0 when there is no match, else the
\* position of the closing marker (the lazy group stops at the first one)
frontmatterEnd(content) ==
  IF content # <<>> /\ content[1] = MARK /\ \E j \in 2..Len(content) : content[j] = MARK
  THEN Min({j \in 2..Len(content) : content[j] = MARK})
  ELSE 0

extractFrontmatter(content) ==
  LET e == frontmatterEnd(content)
  IN IF e = 0 THEN [body |-> content, meta |-> EmptyMapping]
     ELSE LET meta == yamlLoad(SubSeq(content, 2, e - 1))
          IN IF meta.kind = "throws"
             THEN [body |-> content, meta |-> EmptyMapping]
             ELSE [body |-> From(content, e + 1), meta |-> meta]

----------------------------------------------------------------------------
\* The clean-up chain of walk (lines 76-83), one operator per replace call

\* .replace(/import .*? from .*/g, "")
RECURSIVE stripImports(_, _)
stripImports(s, i) ==
  IF i > Len(s) THEN <<>>
  ELSE LET e == LineEnd(s, i)
       IN IF s[i] = IMPORT /\ \E j \in i + 1..e : s[j] = FROM
          THEN stripImports(s, e + 1)
          ELSE <<s[i]>> \o stripImports(s, i + 1)

\* .replace(/export const .*/g, "")
RECURSIVE stripExports(_, _)
stripExports(s, i) ==
  IF i > Len(s) THEN <<>>
  ELSE IF s[i] = EXPORT_CONST THEN stripExports(s, LineEnd(s, i) + 1)
  ELSE <<s[i]>> \o stripExports(s, i + 1)

\* .replace(/\{\/\*.*?\*\/\}/gs, "")
RECURSIVE stripComments(_, _)
stripComments(s, i) ==
  IF i > Len(s) THEN <<>>
  ELSE LET ends == {j \in i + 1..Len(s) : s[j] = CCLOSE}
       IN IF s[i] = COPEN /\ ends # {}
          THEN stripComments(s, Min(ends) + 1)
          ELSE <<s[i]>> \o stripComments(s, i + 1)

\* .replace(/```(jsx|tsx|javascript|typescript)/g, "```js")
RECURSIVE rewriteFences(_, _)
rewriteFences(s, i) ==
  IF i > Len(s) THEN <<>>
  ELSE IF s[i] = FENCE /\ i < Len(s) /\ s[i + 1] \in FenceLangs
  THEN <<FENCE, "js">> \o rewriteFences(s, i + 2)
  ELSE <<s[i]>> \o rewriteFences(s, i + 1)

\* .replace(/<.*?>/g, (tag) => tag.startsWith("<code") || tag.startsWith("<pre") ? tag : "")
RECURSIVE stripTags(_, _)
stripTags(s, i) ==
  IF i > Len(s) THEN <<>>
  ELSE LET ends == {j \in i + 1..LineEnd(s, i) : s[j] = GT}
       IN IF s[i] = LT /\ ends # {}
          THEN LET j == Min(ends)
                   tag == SubSeq(s, i, j)
               IN (IF tag[2] \in KeptTags THEN tag ELSE <<>>) \o stripTags(s, j + 1)
          ELSE <<s[i]>> \o stripTags(s, i + 1)

cleanUp(content) ==
  stripTags(rewriteFences(stripComments(stripExports(stripImports(content, 1), 1), 1), 1), 1)

----------------------------------------------------------------------------
\* loadSnippets

\* content.match(/['"].*snippets.*?['"]/g) || []: the matches from position i on.
\* The greedy .* runs to the last "snippets" of the line that a quote still
\* follows; the lazy .*? stops at the first quote after it.
RECURSIVE snippetMatches(_, _)
snippetMatches(s, i) ==
  IF i > Len(s) THEN <<>>
  ELSE LET e == LineEnd(s, i)
           ks == {k \in i + 1..e : s[k] \in SnippetWords /\ \E q \in k + 1..e : s[q] \in Quotes}
       IN IF s[i] \in Quotes /\ ks # {}
          THEN LET k == Max(ks)
                   q == Min({j \in k + 1..e : s[j] \in Quotes})
               IN <<SubSeq(s, i, q)>> \o snippetMatches(s, q + 1)
          ELSE snippetMatches(s, i + 1)

NotQuote(t) == t \notin Quotes
\* match.replace(/['"]/g, "")
snippetPath(match) == SelectSeq(match, NotQuote)

\* path.extname
extname(p) == IF Len(p) >= 2 /\ p[Len(p)] \in ExtTokens THEN p[Len(p)] ELSE ""

\* the fenced block appended for one snippet file
snippetBlock(code) == <<NL, NL, FENCE, "js", NL>> \o trim(code) \o <<NL, FENCE, NL>>

\* a variant without the test of the extension
mergeSnippetAnyExt(content, match, files) ==
  LET p == snippetPath(match)
  IN IF p \in DOMAIN files /\ files[p].readable
     THEN content \o snippetBlock(files[p].code)
     ELSE content
\* One turn of the for loop of loadSnippets.  Every document directory
\* resolves a reference to the same snippet file: files is keyed by the
\* reference's own path.
mergeSnippet(content, match, files) ==
  LET p == snippetPath(match)
  IN IF p \in DOMAIN files /\ extname(p) \in SNIPPET_EXTENSIONS /\ files[p].readable
     THEN content \o snippetBlock(files[p].code)
     ELSE content

RECURSIVE mergeAll(_, _, _)
mergeAll(content, ms, files) ==
  IF ms = <<>> THEN content
  ELSE mergeAll(mergeSnippet(content, Head(ms), files), Tail(ms), files)

loadSnippets(content, files) == mergeAll(content, snippetMatches(content, 1), files)

----------------------------------------------------------------------------
\* cleanOutput

\* .replace(/(#+ .+)\n+\1/g, "$1"): the group starts at any "#" that a space
\* and at least one more character follow, and runs to the end of its line;
\* after the newlines the same text must come again, as a prefix of what follows.
RECURSIVE dedupHeaders(_, _)
dedupHeaders(s, i) ==
  IF i > Len(s) THEN <<>>
  ELSE LET h == RunLen(s, i, HASH)
           e == LineEnd(s, i)
           n == RunLen(s, e + 1, NL)
           grp == SubSeq(s, i, e)
       IN IF /\ h >= 1
             /\ i + h <= e - 1
             /\ s[i + h] = SP
             /\ n >= 1
             /\ MatchAt(s, e + n + 1, grp)
          THEN grp \o dedupHeaders(s, e + n + Len(grp) + 1)
          ELSE <<s[i]>> \o dedupHeaders(s, i + 1)

\* .replace(/\n{3,}/g, "\n\n")
RECURSIVE collapseNewlines(_, _)
collapseNewlines(s, i) ==
  IF i > Len(s) THEN <<>>
  ELSE LET n == RunLen(s, i, NL)
       IN IF n >= 3 THEN <<NL, NL>> \o collapseNewlines(s, i + n)
          ELSE <<s[i]>> \o collapseNewlines(s, i + 1)

\* .replace(/\n---\n+/g, "\n\n---\n\n")
RECURSIVE normalizeBreaks(_, _)
normalizeBreaks(s, i) ==
  IF i > Len(s) THEN <<>>
  ELSE IF MatchAt(s, i, <<NL, MARK, NL>>)
  THEN <<NL, NL, MARK, NL, NL>> \o normalizeBreaks(s, i + 2 + RunLen(s, i + 2, NL))
  ELSE <<s[i]>> \o normalizeBreaks(s, i + 1)

\* .split("\n").map((line) => line.trimEnd()).join("\n"): the spaces that end a
\* line are dropped
RECURSIVE trimLines(_, _)
trimLines(s, i) ==
  IF i > Len(s) THEN <<>>
  ELSE LET n == RunLen(s, i, SP)
       IN IF n >= 1 /\ (i + n > Len(s) \/ s[i + n] = NL)
          THEN trimLines(s, i + n)
          ELSE <<s[i]>> \o trimLines(s, i + 1)

\* the steps of cleanOutput after the first
afterDedup(t) ==
  trim(trimLines(normalizeBreaks(collapseNewlines(t, 1), 1), 1)) \o <<NL>>

cleanOutput(text) == afterDedup(dedupHeaders(text, 1))

----------------------------------------------------------------------------
\* The file system the script runs on

\* bounds of the model
MaxNodes == 3

File(name, ok, text) == [name |-> name, dir |-> FALSE, ok |-> ok, text |-> text]
Dir(name, ok) == [name |-> name, dir |-> TRUE, ok |-> ok, text |-> <<>>]

\* What an entry below DOCS_DIR can be, by a key.  ok: the file can be read,
\* the directory can be listed.
Items ==
  ("hello.md" :> File(<<"hello", ".md">>, TRUE,
         <<MARK, NL, "title: ", "Hello", NL, MARK, NL,
           IMPORT, "S", FROM, DQ, "snippets/a", ".js", DQ, NL,
           LT, "div", GT, "See", SP, SQ, "snippets/b", ".ts", SQ, NL>>)) @@
  ("world.md" :> File(<<"world", ".md">>, TRUE, <<"Bye", NL>>)) @@
  ("notes.txt" :> File(<<"notes", ".txt">>, TRUE, <<"Note">>)) @@
  ("bad.md" :> File(<<"bad", ".md">>, TRUE, <<MARK, NL, "title: ", "[", NL, MARK, NL, "Text">>)) @@
  ("empty.mdx" :> File(<<"empty", ".mdx">>, TRUE, <<MARK, NL, MARK, NL, "Body">>)) @@
  ("locked.md" :> File(<<"locked", ".md">>, FALSE, <<"Secret">>)) @@
  ("sub" :> Dir(<<"sub">>, TRUE)) @@
  ("private" :> Dir(<<"private">>, FALSE)) @@
  (".git" :> Dir(<<".", "git">>, TRUE))

\* the trees of n entries: entry i is item `item` in directory `parent` (0 is
\* DOCS_DIR), an earlier entry that is a directory; a directory lists its
\* entries in the order of their numbers, and no two of them are the same item
TreesOf(n) ==
  { [i \in 1..n |-> [parent |-> x[1][i], item |-> x[2][i]]] :
      x \in { y \in {f \in [1..n -> 0..(n - 1)] : \A i \in 1..n : f[i] < i}
                     \X [1..n -> DOMAIN Items] :
                /\ \A i \in 1..n : y[1][i] # 0 => Items[y[2][y[1][i]]].dir
                /\ \A i, j \in 1..n : (i < j /\ y[1][i] = y[1][j]) => y[2][i] # y[2][j] } }

\* the snippet files: none, or a.js and b.ts (a tree without a document that
\* refers to a snippet is run with none)
Stores ==
  { <<>>,
    (<<"snippets/a", ".js">> :> [readable |-> TRUE, code |-> <<"A", NL>>]) @@
    (<<"snippets/b", ".ts">> :> [readable |-> TRUE, code |-> <<LT, "b", GT, "B">>]) }

NoFile == <<"(no file)">>

----------------------------------------------------------------------------
\* walk

\* entry e of the tree
entry(e) == Items[tree[e].item]

\* entry.name.startsWith(".")
startsWithDot(name) == name[1] = "." \/ name[1] \in ExtTokens
\* entry.name.endsWith(".md") || entry.name.endsWith(".mdx")
isDoc(name) == name[Len(name)] \in {".md", ".mdx"}
\* path.basename(fullPath, path.extname(fullPath))
basename(name) == IF extname(name) = "" THEN name ELSE SubSeq(name, 1, Len(name) - 1)

\* fs.readdirSync(dir, { withFileTypes: true }) of a directory that can be listed
readdir(d) ==
  LET In(i) == tree[i].parent = d
  IN SelectSeq([i \in 1..Len(tree) |-> i], In)

\* a variant without the test of the name
descendsAny(e) == entry(e).dir
\* the condition of line 67: walk calls itself on the entry
descends(e) == entry(e).dir /\ ~startsWithDot(entry(e).name)

\* lines 76-86 in the claimed order: snippets merged first, then the clean-up
processBodySnippetsFirst(body) == cleanUp(loadSnippets(body, store))
\* lines 76-86: the clean-up chain, then loadSnippets
processBody(body) == loadSnippets(cleanUp(body), store)

\* line 90: the section appended for a document
section(title, content) ==
  <<NL, MARK, NL, HASH, SP>> \o title \o <<NL, NL>> \o trim(content) \o <<NL>>

Header == <<HASH, SP, "React Documentation", NL, NL>>

\* The try block of lines 70-91 for entry e: [ok, text], text the section it
\* appends.  readFileSync throws on a directory and on an unreadable file;
\* meta.title throws a TypeError when yaml.load gave undefined or null.
tryDoc(e) ==
  IF entry(e).dir \/ ~entry(e).ok THEN [ok |-> FALSE, text |-> <<>>]
  ELSE LET fm == extractFrontmatter(entry(e).text)
           content == processBody(fm.body)
       IN IF fm.meta.kind = "nullish" THEN [ok |-> FALSE, text |-> <<>>]
          ELSE [ok |-> TRUE,
                text |-> section(IF fm.meta.title # <<>> THEN fm.meta.title
                                 ELSE basename(entry(e).name), content)]

\* a variant that starts the section before the try block
partialAppend(out, r) == out \o (IF r.ok THEN r.text ELSE <<NL, MARK, NL>>)
\* output after the try/catch of one document
appendSection(out, r) == IF r.ok THEN out \o r.text ELSE out

\* a variant that counts after the try/catch
countAlways(n, r) == n + 1
\* fileCount after the try/catch of one document
countDoc(n, r) == IF r.ok THEN n + 1 ELSE n

Top == stack[Len(stack)]
Walking == pc = "walk" /\ stack # <<>>
HasCur == Walking /\ Top.i <= Len(Top.entries)
Cur == Top.entries[Top.i]
\* the for loop moves to the next entry
Advance == [stack EXCEPT ![Len(stack)].i = @ + 1]
Frame(d) == [dir |-> d, entries |-> readdir(d), i |-> 1]

constVars == <<rootExists, rootOk, tree, store, cIn, cOut, cpc, sBody, sOut, sOut2, spc>>

\* lines 17-20: the docs folder is missing
RootMissing ==
  /\ pc = "start" /\ ~rootExists
  /\ pc' = "exited" /\ exit' = "failure"
  /\ UNCHANGED <<constVars, stack, output, fileCount, disk, writes, visited, appended, reads>>

\* lines 17-23: the docs folder exists; output and fileCount are initialized
RootFound ==
  /\ pc = "start" /\ rootExists
  /\ output' = Header /\ fileCount' = 0
  /\ pc' = "init"
  /\ UNCHANGED <<constVars, stack, disk, writes, exit, visited, appended, reads>>

\* line 118 and line 63: walk(DOCS_DIR) lists the root
WalkRoot ==
  /\ pc = "init" /\ rootOk
  /\ stack' = <<Frame(0)>> /\ pc' = "walk"
  /\ reads' = reads \cup {0}
  /\ UNCHANGED <<constVars, output, fileCount, disk, writes, exit, visited, appended>>

\* line 118 and line 63: readdirSync throws on the root; nothing catches it
WalkRootThrows ==
  /\ pc = "init" /\ ~rootOk
  /\ pc' = "crashed" /\ exit' = "failure"
  /\ reads' = reads \cup {0}
  /\ UNCHANGED <<constVars, stack, output, fileCount, disk, writes, visited, appended>>

\* lines 67-68 and 63: the entry is a directory walk descends into
EnterDir ==
  /\ HasCur /\ descends(Cur) /\ entry(Cur).ok
  /\ stack' = Append(Advance, Frame(Cur))
  /\ visited' = Append(visited, Cur) /\ reads' = reads \cup {Cur}
  /\ UNCHANGED <<constVars, pc, output, fileCount, disk, writes, exit, appended>>

\* lines 67-68 and 63: readdirSync throws in the nested call; no try encloses
\* it, so the exception unwinds every call of walk and ends the process
EnterDirThrows ==
  /\ HasCur /\ descends(Cur) /\ ~entry(Cur).ok
  /\ stack' = <<>> /\ pc' = "crashed" /\ exit' = "failure"
  /\ visited' = Append(visited, Cur) /\ reads' = reads \cup {Cur}
  /\ UNCHANGED <<constVars, output, fileCount, disk, writes, appended>>

\* lines 69-95: a .md or .mdx entry, inside its try/catch
VisitDoc ==
  /\ HasCur /\ ~descends(Cur) /\ isDoc(entry(Cur).name)
  /\ LET r == tryDoc(Cur)
     IN /\ output' = appendSection(output, r)
        /\ fileCount' = countDoc(fileCount, r)
        /\ appended' = IF r.ok THEN Append(appended, Cur) ELSE appended
  /\ stack' = Advance
  /\ visited' = Append(visited, Cur) /\ reads' = reads \cup {Cur}
  /\ UNCHANGED <<constVars, pc, disk, writes, exit>>

\* lines 64-96: any other entry is passed over
SkipEntry ==
  /\ HasCur /\ ~descends(Cur) /\ ~isDoc(entry(Cur).name)
  /\ stack' = Advance
  /\ visited' = Append(visited, Cur)
  /\ UNCHANGED <<constVars, pc, output, fileCount, disk, writes, exit, appended, reads>>

\* line 97: the for loop of the innermost call is over and walk returns
Return ==
  /\ Walking /\ Top.i > Len(Top.entries)
  /\ stack' = SubSeq(stack, 1, Len(stack) - 1)
  /\ pc' = IF Len(stack) = 1 THEN "walked" ELSE "walk"
  /\ UNCHANGED <<constVars, output, fileCount, disk, writes, exit, visited, appended, reads>>

\* line 121
CleanFinal ==
  /\ pc = "walked"
  /\ output' = cleanOutput(output)
  /\ pc' = "cleaned"
  /\ UNCHANGED <<constVars, stack, fileCount, disk, writes, exit, visited, appended, reads>>

\* a write that does not wait for cleanOutput
WriteFileEarly ==
  /\ pc \in {"walked", "cleaned"}
  /\ disk' = output /\ writes' = writes + 1
  /\ pc' = "written"
  /\ UNCHANGED <<constVars, stack, output, fileCount, exit, visited, appended, reads>>

\* line 123
WriteFile ==
  /\ pc = "cleaned"
  /\ disk' = output /\ writes' = writes + 1
  /\ pc' = "written"
  /\ UNCHANGED <<constVars, stack, output, fileCount, exit, visited, appended, reads>>

\* lines 125-126: the summary is logged and the script ends
Finish ==
  /\ pc = "written"
  /\ pc' = "done" /\ exit' = "success"
  /\ UNCHANGED <<constVars, stack, output, fileCount, disk, writes, visited, appended, reads>>

Init ==
  /\ \E n \in 0..MaxNodes : tree \in TreesOf(n)
  /\ rootOk \in BOOLEAN
  /\ rootOk \/ tree = <<>>
  /\ rootExists \in BOOLEAN
  /\ rootExists \/ ~rootOk
  /\ store \in IF \E i \in 1..Len(tree) : snippetMatches(Items[tree[i].item].text, 1) # <<>>
               THEN Stores ELSE {<<>>}
  /\ pc = "start"
  /\ stack = <<>>
  /\ output = <<>>
  /\ fileCount = 0
  /\ disk = NoFile
  /\ writes = 0
  /\ exit = "running"
  /\ visited = <<>>
  /\ appended = <<>>
  /\ reads = {}
  /\ cIn = <<>> /\ cOut = <<>> /\ cpc = "off"
  /\ sBody = <<>> /\ sOut = <<>> /\ sOut2 = <<>> /\ spc = "off"

Next ==
  \/ RootMissing
  \/ RootFound
  \/ WalkRoot
  \/ WalkRootThrows
  \/ EnterDir
  \/ EnterDirThrows
  \/ VisitDoc
  \/ SkipEntry
  \/ Return
  \/ CleanFinal
  \/ WriteFile
  \/ Finish

Spec == Init /\ [][Next]_vars

----------------------------------------------------------------------------
\* What the claims speak of

Range(f) == {f[k] : k \in 1..Len(f)}

\* the entries walk is to handle, in depth-first listing order: the entries of
\* a directory are walked right after it unless its name starts with "."
RECURSIVE dfsOrder(_)
dfsOrder(es) ==
  IF es = <<>> THEN <<>>
  ELSE LET e == Head(es)
       IN <<e>> \o (IF entry(e).dir /\ entry(e).name[1] # "." THEN dfsOrder(readdir(e)) ELSE <<>>)
              \o dfsOrder(Tail(es))
WholeTree == dfsOrder(readdir(0))

\* some directory above entry e has a name that starts with "."
RECURSIVE underHidden(_)
underHidden(e) ==
  LET p == tree[e].parent
  IN p # 0 /\ (entry(p).name[1] = "." \/ underHidden(p))

\* entry e is a .md/.mdx entry that walk does not descend into
Eligible(e) == isDoc(entry(e).name) /\ ~(entry(e).dir /\ entry(e).name[1] # ".")
\* reading or processing e raises an error
Raises(e) == ~tryDoc(e).ok
\* e is a document that is read and processed without an error
Processed(e) == Eligible(e) /\ ~Raises(e)

\* the sections of the entries in es, one after the other
SectionsOf(es) == Flatten([k \in 1..Len(es) |-> tryDoc(es[k]).text])

\* the block between the markers of e's text, as yaml.load takes it
Block(e) == SubSeq(entry(e).text, 2, frontmatterEnd(entry(e).text) - 1)
\* e is a readable document whose metadata block is empty or unparsable
DegenerateMeta(e) ==
  /\ Eligible(e) /\ ~entry(e).dir /\ entry(e).ok
  /\ frontmatterEnd(entry(e).text) # 0
  /\ yamlLoad(Block(e)).kind \in {"nullish", "throws"}

InTraversal == pc \in {"walk", "walked"}

\* C1: an error raised by reading or processing an eligible .md/.mdx entry is
\* caught in that entry's own step: the step leaves output and fileCount as
\* they were and the for loop moves on to the next entry; and when walk
\* returns, every entry of the tree has been handled.
C1_ErrorStaysInStep ==
  /\ [][(HasCur /\ Eligible(Cur) /\ Raises(Cur)) =>
          (/\ output' = output
           /\ fileCount' = fileCount
           /\ pc' = "walk"
           /\ stack' = Advance
           /\ visited' = Append(visited, Cur))]_vars
  /\ [](pc = "walked" => visited = WholeTree)

\* C1 witness: walk has returned after an unreadable document that had a later
\* sibling, and that sibling's section is in the buffer
C1_Witness ==
  /\ pc = "walked"
  /\ \E i, j \in 1..Len(visited) :
       /\ i < j
       /\ Eligible(visited[i]) /\ ~entry(visited[i]).ok
       /\ tree[visited[j]].parent = tree[visited[i]].parent
       /\ visited[j] \in Range(appended)

\* C2 (as claimed): every handled document whose metadata block is empty or
\* unparsable gets the empty mapping as metadata, and its section, titled with
\* the file name without extension, is appended.
C2_DegradesToNoMetadata ==
  \A e \in Range(visited) :
    DegenerateMeta(e) =>
      /\ extractFrontmatter(entry(e).text).meta = EmptyMapping
      /\ e \in Range(appended)
      /\ tryDoc(e).ok
      /\ IsPrefix(<<NL, MARK, NL, HASH, SP>> \o basename(entry(e).name) \o <<NL>>, tryDoc(e).text)

\* C3: OUTPUT_FILE is written at most once; when it has been written, walk had
\* handled the whole tree and returned and the content is cleanOutput of the
\* assembled buffer; in every state before that (where a run that stops early
\* stops), nothing has been written.
C3_WriteOnceAtEnd ==
  /\ writes <= 1
  /\ writes = 1 =>
       /\ pc \in {"written", "done"}
       /\ stack = <<>> /\ visited = WholeTree
       /\ disk = cleanOutput(Header \o SectionsOf(appended))
  /\ pc \notin {"written", "done"} => writes = 0 /\ disk = NoFile

\* C3 witness: the file has been written after a walk that appended a section
C3_Witness == writes = 1 /\ appended # <<>> /\ disk # NoFile

\* C4 (as claimed): the process ends with a failure status only if the root
\* documentation directory does not exist.
C4_FailureOnlyWithoutRoot == exit = "failure" => ~rootExists

\* C5 (as claimed): snippets are merged into the body as it is after the
\* frontmatter removal, and the clean-up runs on the merged body.
C5_SnippetsBeforeCleanUp ==
  InTraversal =>
    output = Header \o Flatten([k \in 1..Len(appended) |->
               LET e == appended[k]
                   fm == extractFrontmatter(entry(e).text)
               IN section(IF fm.meta.title # <<>> THEN fm.meta.title ELSE basename(entry(e).name),
                          cleanUp(loadSnippets(fm.body, store)))])

\* C5 (amended): for each document the walker extracts the frontmatter, then
\* runs the clean-up on the body, then merges the snippets: references are
\* scanned on the cleaned body, and merged snippet code is not cleaned.
C5_CleanUpBeforeSnippets ==
  InTraversal =>
    output = Header \o Flatten([k \in 1..Len(appended) |->
               LET e == appended[k]
                   fm == extractFrontmatter(entry(e).text)
               IN section(IF fm.meta.title # <<>> THEN fm.meta.title ELSE basename(entry(e).name),
                          loadSnippets(cleanUp(fm.body), store))])

\* C5 witness: a section was appended for a document on which the two orders
\* give different bodies, and a snippet was merged into it
C5_Witness ==
  /\ InTraversal
  /\ \E e \in Range(appended) :
       LET body == extractFrontmatter(entry(e).text).body
       IN /\ loadSnippets(cleanUp(body), store) # cleanUp(loadSnippets(body, store))
          /\ loadSnippets(cleanUp(body), store) # cleanUp(body)

\* C6: during the traversal the buffer is the top-level heading followed by
\* one section per successfully processed document, in depth-first listing
\* order; fileCount is the number of those sections; a step of the traversal
\* only appends to the buffer.
C6_BufferIsHeadingPlusSections ==
  /\ [](InTraversal =>
          /\ IsPrefix(visited, WholeTree)
          /\ appended = SelectSeq(visited, Processed)
          /\ \A k \in 1..Len(appended) : Eligible(appended[k])
          /\ output = Header \o SectionsOf(appended)
          /\ fileCount = Len(appended))
  /\ [][pc = "walk" => IsPrefix(output, output')]_vars

\* C6 witness: walk has returned with two sections in the buffer, the first of
\* a document in a subdirectory, the second of a document of the root that
\* has the smaller entry number
C6_Witness ==
  /\ pc = "walked"
  /\ Len(appended) >= 2 /\ fileCount = 2
  /\ tree[appended[1]].parent # 0
  /\ tree[appended[2]].parent = 0
  /\ appended[1] > appended[2]

\* C7: walk never descends into a directory whose name starts with ".": no
\* entry below such a directory is handled, read, appended or counted.
C7_HiddenNeverEntered ==
  /\ \A e \in Range(visited) \cup Range(appended) \cup (reads \ {0}) : ~underHidden(e)
  /\ \A k \in 1..Len(stack) : stack[k].dir # 0 => entry(stack[k].dir).name[1] # "."
  /\ fileCount <= Cardinality({e \in 1..Len(tree) : ~underHidden(e)})

\* C7 witness: walk has returned on a tree with a readable .md file below a
\* directory whose name starts with ".", and the directory was passed over
C7_Witness ==
  /\ pc = "walked"
  /\ \E e \in 1..Len(tree) :
       /\ underHidden(e) /\ isDoc(entry(e).name) /\ entry(e).ok /\ ~entry(e).dir
       /\ tree[e].parent \in Range(visited)

\* a line that is exactly "---" at position i of text t
SeparatorAt(t, i) ==
  /\ t[i] = MARK
  /\ i = 1 \/ t[i - 1] = NL
  /\ i = Len(t) \/ t[i + 1] = NL
\* exactly one blank line above and one below the separator at position i
OneBlankAround(t, i) ==
  /\ i >= 4 /\ t[i - 1] = NL /\ t[i - 2] = NL /\ t[i - 3] # NL
  /\ i + 3 <= Len(t) /\ t[i + 1] = NL /\ t[i + 2] = NL /\ t[i + 3] # NL

\* C8 (as claimed): in the text cleanOutput returns for the assembled buffer,
\* every separator line has exactly one blank line above and one below, and
\* no three newlines follow one another.
C8_SeparatorsNormalized ==
  pc \in {"cleaned", "written", "done"} =>
    /\ \A i \in 1..Len(output) : SeparatorAt(output, i) => OneBlankAround(output, i)
    /\ \A i \in 1..Len(output) : RunLen(output, i, NL) < 3

----------------------------------------------------------------------------
\* The rest of the main specification's variables when another one runs

MainIdle ==
  /\ rootExists = FALSE /\ rootOk = FALSE /\ tree = <<>>
  /\ pc = "off" /\ stack = <<>> /\ output = <<>> /\ fileCount = 0
  /\ disk = NoFile /\ writes = 0 /\ exit = "running"
  /\ visited = <<>> /\ appended = <<>> /\ reads = {}

\* all sequences over S of length at most n
RECURSIVE SeqsUpTo(_, _)
SeqsUpTo(S, n) ==
  IF n = 0 THEN {<<>>}
  ELSE LET shorter == SeqsUpTo(S, n - 1)
       IN shorter \cup {Append(q, x) : q \in shorter, x \in S}

----------------------------------------------------------------------------
\* SpecClean: cleanOutput on two lines with newlines between them

MaxLineLen == 4
MaxNewlines == 2

\* the lines of at most n tokens
CleanLines(n) == SeqsUpTo({HASH, SP, "T"}, n) \ {<<>>}

InitClean ==
  /\ MainIdle /\ store = <<>>
  /\ \E l1 \in CleanLines(MaxLineLen), l2 \in CleanLines(MaxLineLen), n \in 1..MaxNewlines :
       cIn = l1 \o [k \in 1..n |-> NL] \o l2
  /\ cOut = <<>> /\ cpc = "start"
  /\ sBody = <<>> /\ sOut = <<>> /\ sOut2 = <<>> /\ spc = "off"

\* line 104: the first replace of cleanOutput
ApplyDedup ==
  /\ cpc = "start"
  /\ cOut' = dedupHeaders(cIn, 1) /\ cpc' = "deduped"
  /\ UNCHANGED <<mainVars, cIn, snipVars>>

\* lines 105-113: the other steps of cleanOutput
ApplyAfterDedup ==
  /\ cpc = "deduped"
  /\ cOut' = afterDedup(cOut) /\ cpc' = "cleaned"
  /\ UNCHANGED <<mainVars, cIn, snipVars>>

NextClean == ApplyDedup \/ ApplyAfterDedup

SpecClean == InitClean /\ [][NextClean]_vars

\* a heading line: one or more "#", a space, and at least one more character
HeadingLine(l) ==
  LET h == RunLen(l, 1, HASH)
  IN h >= 1 /\ Len(l) >= h + 2 /\ l[h + 1] = SP /\ \A k \in 1..Len(l) : l[k] # NL

FirstLine(t) == SubSeq(t, 1, LineEnd(t, 1))
SecondLine(t) == From(t, LineEnd(t, 1) + RunLen(t, LineEnd(t, 1) + 1, NL) + 1)

\* C9 (as claimed): of two consecutive heading lines, the first step of
\* cleanOutput keeps one when they are identical and keeps both, unchanged,
\* when they differ, also when the second starts with the text of the first.
C9_OnlyIdenticalHeadingsCollapse ==
  (cpc = "deduped" /\ HeadingLine(FirstLine(cIn)) /\ HeadingLine(SecondLine(cIn))) =>
    cOut = IF FirstLine(cIn) = SecondLine(cIn) THEN FirstLine(cIn) ELSE cIn

----------------------------------------------------------------------------
\* SpecSnip: loadSnippets on bodies made of references, words and newlines

MaxPieces == 3

Pieces ==
  { <<SQ, "snippets/a", ".js", SQ>>,
    <<DQ, "snippets/b", ".py", DQ>>,
    <<DQ, "snippets/d", ".tsx", SQ>>,
    <<"x">>, <<NL>>, <<SQ>> }
\* the bodies of at most n pieces
SnipBodies(n) == {Flatten(ps) : ps \in SeqsUpTo(Pieces, n)}

SnipCode ==
  (<<"snippets/a", ".js">> :> <<"A", NL>>) @@
  (<<"snippets/b", ".py">> :> <<"P">>) @@
  (<<"snippets/d", ".tsx">> :> <<SP, "D">>)
\* every choice of which of the three files exist and which can be read
SnipStores ==
  { [p \in S |-> [readable |-> p \in R, code |-> SnipCode[p]]] :
      S \in SUBSET DOMAIN SnipCode, R \in SUBSET DOMAIN SnipCode }

InitSnip ==
  /\ MainIdle /\ store \in SnipStores
  /\ cIn = <<>> /\ cOut = <<>> /\ cpc = "off"
  /\ sBody \in SnipBodies(MaxPieces) /\ sOut = <<>> /\ sOut2 = <<>> /\ spc = "start"

\* lines 40-59: loadSnippets on the body
ApplyLoad ==
  /\ spc = "start"
  /\ sOut' = loadSnippets(sBody, store) /\ spc' = "once"
  /\ UNCHANGED <<mainVars, cleanVars, sBody, sOut2>>

\* lines 40-59: loadSnippets on its own result
ApplyLoadAgain ==
  /\ spc = "once"
  /\ sOut2' = loadSnippets(sOut, store) /\ spc' = "twice"
  /\ UNCHANGED <<mainVars, cleanVars, sBody, sOut>>

NextSnip == ApplyLoad \/ ApplyLoadAgain

SpecSnip == InitSnip /\ [][NextSnip]_vars

\* the candidate reference m names an existing file with a recognized extension
ExistsRecognized(m) ==
  LET p == snippetPath(m)
  IN p \in DOMAIN store /\ p[Len(p)] \in {".js", ".jsx", ".ts", ".tsx"}
\* ... that can also be read
Inlined(m) == ExistsRecognized(m) /\ store[snippetPath(m)].readable

FencedBlock(m) ==
  <<NL, NL, FENCE, "js", NL>> \o trim(store[snippetPath(m)].code) \o <<NL, FENCE, NL>>

\* C10 (as claimed): the result is the body followed by one fenced block per
\* candidate that names an existing file with a recognized extension, in the
\* order of the matches in the original body; when no candidate does, the
\* body comes back unchanged, also from a second application.
C10_OneBlockPerExistingFile ==
  spc \in {"once", "twice"} =>
    LET ms == snippetMatches(sBody, 1)
    IN /\ sOut = sBody \o Flatten([k \in 1..Len(ms) |->
                   IF ExistsRecognized(ms[k]) THEN FencedBlock(ms[k]) ELSE <<>>])
       /\ (\A k \in 1..Len(ms) : ~ExistsRecognized(ms[k])) =>
            (sOut = sBody /\ (spc = "twice" => sOut2 = sBody))

\* C10 (amended): the result is the body followed by one fenced block per
\* candidate that names an existing file with a recognized extension whose
\* read succeeds, in the order of the matches in the original body; when no
\* candidate is such, the body comes back unchanged, also from a second
\* application.
C10_OneBlockPerReadableFile ==
  spc \in {"once", "twice"} =>
    LET ms == snippetMatches(sBody, 1)
    IN /\ IsPrefix(sBody, sOut)
       /\ sOut = sBody \o Flatten([k \in 1..Len(ms) |->
                   IF Inlined(ms[k]) THEN FencedBlock(ms[k]) ELSE <<>>])
       /\ (\A k \in 1..Len(ms) : ~Inlined(ms[k])) =>
            (sOut = sBody /\ (spc = "twice" => sOut2 = sBody))

\* C10 witness: loadSnippets ran twice on a body with two candidates, the
\* first inlined, the second left alone, and on a result that differs
C10_Witness ==
  /\ spc = "twice"
  /\ LET ms == snippetMatches(sBody, 1)
     IN Len(ms) = 2 /\ Inlined(ms[1]) /\ ~Inlined(ms[2]) /\ snippetPath(ms[2]) \in DOMAIN store
  /\ sOut # sBody

====
